---- MODULE Spec2Model ----
(***************************************************************************)
(* Desktop-shell bootstrap of the Tauri front end.                         *)
(*                                                                         *)
(*   src/Frontend/src-tauri/src/main.rs  Backend Lifecycle Manager: the    *)
(*       setup callback spawns the backend and registers its handle as     *)
(*       managed state; the window-event callback takes the handle out of  *)
(*       the mutex-guarded slot and kills the process on CloseRequested.   *)
(*   src/Frontend/src-tauri/build.rs     Icon Provisioner: writes a fixed  *)
(*       70-byte placeholder ICO when icons/icon.ico does not exist.       *)
(*                                                                         *)
(* The host runtime (tauri) is not part of the repository.  It is modelled *)
(* as an environment that may dispatch window events at any moment after   *)
(* the application has started and on any of NumHandlers threads; this     *)
(* over-approximates the host, which runs setup before any window event.   *)
(***************************************************************************)
EXTENDS Integers, Sequences, FiniteSets, TLC

\* ---------------------------------------------------------------- bounds
NumHandlers == 2      \* threads on which the window-event callback may run
MaxEvents == 4        \* window events dispatched in one run
MaxPid == 2           \* process identifiers the OS may hand out
MaxBuilds == 2        \* consecutive runs of the build script
MaxExistingLen == 2   \* length of a pre-existing icon file other than the placeholder

Handlers == 1..NumHandlers
Pids == 1..MaxPid

\* Option<Child>::None, and the absence of the managed BackendProcess state
None == 0
NoState == -1
\* io::Result::Err of Command::spawn()
SpawnErr == 0
\* Mutex with no owner
Unlocked == 0

WindowEvents == {"CloseRequested", "Other"}

VARIABLES
    appPc,            \* position of the main thread inside main()/setup
    resource_dir,     \* result of app.path().resource_dir(): "unresolved" | "ok" | "err"
    spawnLog,         \* results of Command::spawn(), one per attempt
    backend_process,  \* setup's local `backend_process : Option<Child>`
    slot,             \* BackendProcess.0 contents, NoState until app.manage
    mutexOwner,       \* holder of BackendProcess.0's lock
    poisoned,         \* whether the mutex is poisoned
    hpc,              \* per handler thread: position in the on_window_event closure
    found,            \* per handler thread: try_state returned Some
    child,            \* per handler thread: local `child` bound by backend.take()
    killLog,          \* kill() calls issued: <<thread, pid, result>>
    procState,        \* OS view of the backend: "none" | "alive" | "exited" | "killed"
    events,           \* number of window events dispatched so far
    handled,          \* close-requests whose handler returned after finding the state
    skipped,          \* close-requests whose handler returned without finding the state
    takers,           \* handler threads that received Some(child) from take()
    \* ---- build script (build.rs)
    bpc,              \* position of the build script
    target_windows,   \* cfg(target_os = "windows") of this build
    manifest_env,     \* CARGO_MANIFEST_DIR: "unset" or a directory name
    fs,               \* per project root: [dir |-> icons/ exists, exists |-> icon.ico exists, bytes |-> its content]
    openFile,         \* the File handle `f` is open
    builds,           \* completed runs of the build script
    ioErrors,         \* I/O errors swallowed so far
    initialFs         \* the file system before the first build (history)

backendVars == <<appPc, resource_dir, spawnLog, backend_process, slot, mutexOwner,
                 poisoned, hpc, found, child, killLog, procState, events, handled,
                 skipped, takers>>
iconVars == <<bpc, target_windows, manifest_env, fs, openFile, builds, ioErrors, initialFs>>
vars == <<backendVars, iconVars>>

\* ======================================================================
\* Backend Lifecycle Manager (main.rs)
\* ======================================================================

InitBackend ==
    /\ appPc = "setup"
    /\ resource_dir = "unresolved"
    /\ spawnLog = <<>>
    /\ backend_process = None
    /\ slot = NoState
    /\ mutexOwner = Unlocked
    /\ poisoned = FALSE
    /\ hpc = [t \in Handlers |-> "idle"]
    /\ found = [t \in Handlers |-> FALSE]
    /\ child = [t \in Handlers |-> None]
    /\ killLog = <<>>
    /\ procState = "none"
    /\ events = 0
    /\ handled = 0
    /\ skipped = 0
    /\ takers = {}

\* start_backend_process, lines 41-44: resource_dir().expect(..) panics on Err,
\* which aborts the application inside the setup callback.
StartBackendResolve ==
    /\ appPc = "setup"
    /\ \E r \in {"ok", "err"} :
        /\ resource_dir' = r
        /\ appPc' = IF r = "ok" THEN "spawn" ELSE "aborted"
    /\ UNCHANGED <<spawnLog, backend_process, slot, mutexOwner, poisoned, hpc, found,
                   child, killLog, procState, events, handled, skipped, takers>>

\* Variant: the Err arm yields a handle as well.
SpawnResultToOption_ErrIsSome(r) == IF r \in Pids THEN r ELSE 1

\* The match of lines 56-64: Ok(child) => Some(child), Err(e) => None.
SpawnResultToOption(r) == IF r \in Pids THEN r ELSE None

\* Variant: a failed spawn is attempted again.
StartBackendSpawn_Retry ==
    /\ appPc = "spawn"
    /\ Len(spawnLog) < 3
    /\ \E r \in Pids \cup {SpawnErr} :
        /\ spawnLog' = Append(spawnLog, r)
        /\ backend_process' = SpawnResultToOption(r)
        /\ procState' = IF r \in Pids THEN "alive" ELSE procState
        /\ appPc' = IF r \in Pids THEN "manage" ELSE "spawn"
    /\ UNCHANGED <<resource_dir, slot, mutexOwner, poisoned, hpc, found, child,
                   killLog, events, handled, skipped, takers>>

\* Variant: the spawn result is unwrapped with expect(), as the resource
\* directory is.
StartBackendSpawn_Expect ==
    /\ appPc = "spawn"
    /\ \E r \in Pids \cup {SpawnErr} :
        /\ spawnLog' = Append(spawnLog, r)
        /\ backend_process' = SpawnResultToOption(r)
        /\ procState' = IF r \in Pids THEN "alive" ELSE procState
        /\ appPc' = IF r \in Pids THEN "manage" ELSE "aborted"
    /\ UNCHANGED <<resource_dir, slot, mutexOwner, poisoned, hpc, found, child,
                   killLog, events, handled, skipped, takers>>

\* start_backend_process, lines 47-65: one Command::spawn(), whose result is
\* returned into setup's local `backend_process` (line 17).
StartBackendSpawn ==
    /\ appPc = "spawn"
    /\ \E r \in Pids \cup {SpawnErr} :
        /\ spawnLog' = Append(spawnLog, r)
        /\ backend_process' = SpawnResultToOption(r)
        /\ procState' = IF r \in Pids THEN "alive" ELSE procState
    /\ appPc' = "manage"
    /\ UNCHANGED <<resource_dir, slot, mutexOwner, poisoned, hpc, found, child,
                   killLog, events, handled, skipped, takers>>

\* setup, lines 18-20: app.manage(BackendProcess(Mutex::new(backend_process)));
\* the local is moved into the new mutex, then the callback returns Ok(()).
SetupManage ==
    /\ appPc = "manage"
    /\ slot' = backend_process
    /\ backend_process' = None
    /\ appPc' = "ready"
    /\ UNCHANGED <<resource_dir, spawnLog, mutexOwner, poisoned, hpc, found, child,
                   killLog, procState, events, handled, skipped, takers>>

\* on_window_event, lines 22-23 and 33: the host calls the closure with an event;
\* anything but CloseRequested falls through the if-let and returns.
OnWindowEvent(t) ==
    /\ appPc # "aborted"
    /\ hpc[t] = "idle"
    /\ events < MaxEvents
    /\ events' = events + 1
    /\ \E ev \in WindowEvents :
        hpc' = [hpc EXCEPT ![t] = IF ev = "CloseRequested" THEN "try_state" ELSE "idle"]
    /\ UNCHANGED <<appPc, resource_dir, spawnLog, backend_process, slot, mutexOwner,
                   poisoned, found, child, killLog, procState, handled, skipped, takers>>

\* Variant: the state is assumed to be managed (state() instead of try_state()).
TryStateResult_Assumed == TRUE

\* try_state::<BackendProcess>() is Some exactly when the state has been managed.
TryStateResult == slot # NoState

\* line 25: if let Some(backend_state) = ...try_state::<BackendProcess>()
TryState(t) ==
    /\ appPc # "aborted"
    /\ hpc[t] = "try_state"
    /\ found' = [found EXCEPT ![t] = TryStateResult]
    /\ IF TryStateResult
         THEN /\ hpc' = [hpc EXCEPT ![t] = "lock"]
              /\ UNCHANGED skipped
         ELSE /\ hpc' = [hpc EXCEPT ![t] = "idle"]
              /\ skipped' = skipped + 1
    /\ UNCHANGED <<appPc, resource_dir, spawnLog, backend_process, slot, mutexOwner,
                   poisoned, child, killLog, procState, events, handled, takers>>

\* Variant: the slot is reached without acquiring the mutex.
Lock_NoMutex(t) ==
    /\ appPc # "aborted"
    /\ hpc[t] = "lock"
    /\ hpc' = [hpc EXCEPT ![t] = "take_read"]
    /\ UNCHANGED <<appPc, resource_dir, spawnLog, backend_process, slot, mutexOwner,
                   poisoned, found, child, killLog, procState, events, handled,
                   skipped, takers>>

\* line 26: if let Ok(mut backend) = backend_state.0.lock(); blocks while the
\* mutex is held, yields Err (and the closure returns) when it is poisoned.
Lock(t) ==
    /\ appPc # "aborted"
    /\ hpc[t] = "lock"
    /\ mutexOwner = Unlocked
    /\ IF poisoned
         THEN /\ hpc' = [hpc EXCEPT ![t] = "idle"]
              /\ found' = [found EXCEPT ![t] = FALSE]
              /\ handled' = handled + 1
              /\ UNCHANGED mutexOwner
         ELSE /\ mutexOwner' = t
              /\ hpc' = [hpc EXCEPT ![t] = "take_read"]
              /\ UNCHANGED <<found, handled>>
    /\ UNCHANGED <<appPc, resource_dir, spawnLog, backend_process, slot, poisoned,
                   child, killLog, procState, events, skipped, takers>>

\* line 27, first half of Option::take (mem::replace): read the slot.
TakeRead(t) ==
    /\ appPc # "aborted"
    /\ hpc[t] = "take_read"
    /\ child' = [child EXCEPT ![t] = slot]
    /\ hpc' = [hpc EXCEPT ![t] = "take_write"]
    /\ UNCHANGED <<appPc, resource_dir, spawnLog, backend_process, slot, mutexOwner,
                   poisoned, found, killLog, procState, events, handled, skipped, takers>>

\* Variant: the handle is borrowed (as_mut) instead of taken; the slot keeps it.
TakeWrite_Borrow(t) ==
    /\ appPc # "aborted"
    /\ hpc[t] = "take_write"
    /\ IF child[t] \in Pids
         THEN /\ takers' = takers \cup {t}
              /\ hpc' = [hpc EXCEPT ![t] = "kill"]
         ELSE /\ hpc' = [hpc EXCEPT ![t] = "unlock"]
              /\ UNCHANGED takers
    /\ UNCHANGED <<appPc, resource_dir, spawnLog, backend_process, slot, mutexOwner,
                   poisoned, found, child, killLog, procState, events, handled, skipped>>

\* line 27, second half of Option::take: leave None behind; if let Some(mut child)
\* enters the block only for a taken handle.
TakeWrite(t) ==
    /\ appPc # "aborted"
    /\ hpc[t] = "take_write"
    /\ slot' = None
    /\ IF child[t] \in Pids
         THEN /\ takers' = takers \cup {t}
              /\ hpc' = [hpc EXCEPT ![t] = "kill"]
         ELSE /\ hpc' = [hpc EXCEPT ![t] = "unlock"]
              /\ UNCHANGED takers
    /\ UNCHANGED <<appPc, resource_dir, spawnLog, backend_process, mutexOwner, poisoned,
                   found, child, killLog, procState, events, handled, skipped>>

\* Variant: a failed kill is retried.
Kill_Retry(t) ==
    /\ appPc # "aborted"
    /\ hpc[t] = "kill"
    /\ Len(killLog) < 3
    /\ \E r \in {"ok", "err"} :
        /\ killLog' = Append(killLog, <<t, child[t], r>>)
        /\ procState' = IF r = "ok" /\ procState = "alive" THEN "killed" ELSE procState
        /\ child' = [child EXCEPT ![t] = IF r = "ok" THEN None ELSE child[t]]
        /\ hpc' = [hpc EXCEPT ![t] = IF r = "ok" THEN "unlock" ELSE "kill"]
    /\ UNCHANGED <<appPc, resource_dir, spawnLog, backend_process, slot, mutexOwner,
                   poisoned, found, events, handled, skipped, takers>>

\* lines 28-30: let _ = child.kill(); println!(..); the result is discarded and
\* `child` is dropped at the end of the block.
Kill(t) ==
    /\ appPc # "aborted"
    /\ hpc[t] = "kill"
    /\ \E r \in {"ok", "err"} :
        /\ killLog' = Append(killLog, <<t, child[t], r>>)
        /\ procState' = IF r = "ok" /\ procState = "alive" THEN "killed" ELSE procState
    /\ child' = [child EXCEPT ![t] = None]
    /\ hpc' = [hpc EXCEPT ![t] = "unlock"]
    /\ UNCHANGED <<appPc, resource_dir, spawnLog, backend_process, slot, mutexOwner,
                   poisoned, found, events, handled, skipped, takers>>

\* lines 31-33: the MutexGuard goes out of scope and the closure returns.
Unlock(t) ==
    /\ appPc # "aborted"
    /\ hpc[t] = "unlock"
    /\ mutexOwner' = IF mutexOwner = t THEN Unlocked ELSE mutexOwner
    /\ child' = [child EXCEPT ![t] = None]
    /\ found' = [found EXCEPT ![t] = FALSE]
    /\ hpc' = [hpc EXCEPT ![t] = "idle"]
    /\ handled' = handled + 1
    /\ UNCHANGED <<appPc, resource_dir, spawnLog, backend_process, slot, poisoned,
                   killLog, procState, events, skipped, takers>>

\* The backend is an independent OS process (Command::spawn, line 54) and may
\* exit on its own at any time.
BackendExit ==
    /\ procState = "alive"
    /\ procState' = "exited"
    /\ UNCHANGED <<appPc, resource_dir, spawnLog, backend_process, slot, mutexOwner,
                   poisoned, hpc, found, child, killLog, events, handled, skipped, takers>>

InitIconIdle ==
    /\ bpc = "idle"
    /\ target_windows = FALSE
    /\ manifest_env = "unset"
    /\ fs = [r \in {".", "proj"} |-> [dir |-> FALSE, exists |-> FALSE, bytes |-> <<>>]]
    /\ openFile = FALSE
    /\ builds = 0
    /\ ioErrors = 0
    /\ initialFs = fs

Init == InitBackend /\ InitIconIdle

Next ==
    \/ (StartBackendResolve /\ UNCHANGED iconVars)
    \/ (StartBackendSpawn /\ UNCHANGED iconVars)
    \/ (SetupManage /\ UNCHANGED iconVars)
    \/ (BackendExit /\ UNCHANGED iconVars)
    \/ \E t \in Handlers :
        \/ (OnWindowEvent(t) /\ UNCHANGED iconVars)
        \/ (TryState(t) /\ UNCHANGED iconVars)
        \/ (Lock(t) /\ UNCHANGED iconVars)
        \/ (TakeRead(t) /\ UNCHANGED iconVars)
        \/ (TakeWrite(t) /\ UNCHANGED iconVars)
        \/ (Kill(t) /\ UNCHANGED iconVars)
        \/ (Unlock(t) /\ UNCHANGED iconVars)

Spec == Init /\ [][Next]_vars

TypeOK ==
    /\ appPc \in {"setup", "spawn", "manage", "ready", "aborted"}
    /\ slot \in {NoState, None} \cup Pids
    /\ mutexOwner \in {Unlocked} \cup Handlers
    /\ Len(killLog) <= MaxEvents
    /\ events <= MaxEvents

\* ======================================================================
\* Properties of the Backend Lifecycle Manager
\* ======================================================================

Spawned == \E i \in 1..Len(spawnLog) : spawnLog[i] \in Pids
SpawnFailed == \E i \in 1..Len(spawnLog) : spawnLog[i] = SpawnErr
Kills == Len(killLog)
InCritical(t) == hpc[t] \in {"take_read", "take_write", "kill", "unlock"}
HoldingHandle == {t \in Handlers : child[t] \in Pids}

\* C1: in a run whose spawn succeeded, a close-request handled while the handle
\* is present empties the slot and issues exactly one kill, to the spawned
\* process; once issued, the kill is never issued again, whatever its result.
C1_KillExactlyOnce ==
    /\ [](/\ Kills <= 1
          /\ \A i \in 1..Kills : Spawned /\ killLog[i][2] = spawnLog[1]
          /\ (Spawned /\ handled >= 1) => (Kills = 1 /\ slot = None)
          /\ \A t \in takers : hpc[t] \in {"kill", "unlock"} => slot = None)
    /\ [][(Kills = 1 => killLog' = killLog) /\ (slot = None => slot' = None)]_vars

C1_Witness ==
    /\ Spawned
    /\ Kills = 1
    /\ killLog[1][3] = "err"
    /\ handled >= 2
    /\ slot = None

\* C2: the close-request handler is idempotent: after any number n >= 1 of
\* handled close-requests the slot is empty and the number of kills is what one
\* close-request produces; a handler that finds the slot empty or finds no
\* state changes nothing and issues no kill.
C2_CloseIdempotent ==
    /\ [](handled >= 1 => (slot = None /\ Kills = (IF Spawned THEN 1 ELSE 0)))
    /\ [][\A t \in Handlers :
            /\ (hpc[t] = "take_write" /\ child[t] = None /\ hpc'[t] # hpc[t])
                  => (/\ slot' = slot
                      /\ killLog' = killLog
                      /\ procState' = procState
                      /\ appPc' = appPc
                      /\ hpc'[t] = "unlock")
            /\ (hpc[t] = "try_state" /\ slot = NoState /\ hpc'[t] # hpc[t])
                  => (/\ slot' = slot
                      /\ killLog' = killLog
                      /\ procState' = procState
                      /\ appPc' = appPc
                      /\ hpc'[t] = "idle")]_vars

C2_Witness ==
    /\ handled >= 3
    /\ Kills = 1
    /\ killLog[1][3] = "ok"
    /\ slot = None
    /\ \A t \in Handlers : hpc[t] = "idle"

\* C3: when the spawn fails, start_backend_process returns None, setup goes on
\* to register the state and return, the slot is empty from its creation on,
\* and no kill is ever issued.
C3_SpawnFailureDegrades ==
    SpawnFailed =>
        /\ appPc \in {"manage", "ready"}
        /\ backend_process = None
        /\ slot \in {NoState, None}
        /\ (appPc = "ready" => slot = None)
        /\ Kills = 0
        /\ takers = {}
        /\ procState = "none"

C3_Witness ==
    /\ SpawnFailed
    /\ appPc = "ready"
    /\ slot = None
    /\ handled >= 2
    /\ Kills = 0

\* The three states of the backend handle named by the design.
HandleState ==
    IF backend_process \in Pids \/ slot \in Pids THEN "Running"
    ELSE IF takers # {} THEN "Terminated"
    ELSE "NotStarted"

TrackedHandles ==
    (IF backend_process \in Pids THEN 1 ELSE 0) + (IF slot \in Pids THEN 1 ELSE 0)

\* C4: the handle only moves NotStarted -> Running (a successful spawn in setup)
\* and Running -> Terminated (a close-request taking it); at most one handle is
\* tracked; the spawn is attempted at most once; after a failed spawn or after
\* termination the handle never becomes Running again.
C4_HandleStateMachine ==
    /\ [](/\ TrackedHandles <= 1
          /\ Len(spawnLog) <= 1
          /\ (SpawnFailed => HandleState = "NotStarted"))
    /\ [][/\ (HandleState' # HandleState) =>
                \/ /\ HandleState = "NotStarted"
                   /\ HandleState' = "Running"
                   /\ appPc = "spawn"
                   /\ spawnLog = <<>>
                \/ /\ HandleState = "Running"
                   /\ HandleState' = "Terminated"
                   /\ \E t \in Handlers : hpc[t] = "take_write" /\ hpc'[t] = "kill"
          /\ (HandleState = "Terminated" => HandleState' = "Terminated")
          /\ (SpawnFailed => HandleState' = "NotStarted")]_vars

C4_Witness ==
    /\ HandleState = "Terminated"
    /\ appPc = "ready"
    /\ handled >= 2
    /\ events = MaxEvents

\* C5: under every interleaving of setup and close-request handlers the slot
\* is only touched by the thread holding the mutex, at most one thread is in
\* the critical section, the slot is either absent or present, the handle is
\* never lost, and at most one handler receives it.
C5_SlotNeverTorn ==
    /\ \A t \in Handlers : InCritical(t) => mutexOwner = t
    /\ Cardinality({t \in Handlers : InCritical(t)}) <= 1
    /\ slot # NoState => (slot = None \/ slot \in Pids)
    /\ Cardinality(takers) <= 1
    /\ Cardinality(HoldingHandle) <= 1
    /\ \A t \in HoldingHandle :
          /\ mutexOwner = t
          /\ (slot \in Pids => hpc[t] = "take_write")
          /\ backend_process = None
    /\ (Spawned /\ Kills = 0) =>
          (backend_process \in Pids \/ slot \in Pids \/ HoldingHandle # {})

C5_Witness ==
    \E t1, t2 \in Handlers :
        /\ t1 # t2
        /\ hpc[t1] = "take_write"
        /\ child[t1] \in Pids
        /\ hpc[t2] = "lock"

\* C6: a close-request handler only observes or acts on the slot after setup
\* has spawned and stored the result; a close-request handled earlier finds no
\* state and does nothing, so the stored handle is still there for the first
\* handler that does observe the slot.
C6_SpawnStoredBeforeClose ==
    /\ \A t \in Handlers :
          /\ hpc[t] \in {"lock", "take_read", "take_write", "kill", "unlock"} =>
                (slot # NoState /\ appPc = "ready" /\ Len(spawnLog) = 1)
          /\ child[t] # NoState
          /\ found[t] => slot # NoState
    /\ slot = NoState => (Kills = 0 /\ takers = {} /\ handled = 0)
    /\ (appPc = "ready" /\ Spawned /\ takers = {}) => slot \in Pids

C6_Witness ==
    /\ skipped >= 1
    /\ handled >= 1
    /\ Kills = 1
    /\ procState = "killed"

ico_bytes ==
    << 0, 0,   1, 0,   1, 0,
       1,   1,   0,   0,   1, 0,   32, 0,   48, 0, 0, 0,   22, 0, 0, 0,
       40, 0, 0, 0,   1, 0, 0, 0,   2, 0, 0, 0,   1, 0,   32, 0,
       0, 0, 0, 0,   0, 0, 0, 0,   0, 0, 0, 0,   0, 0, 0, 0,
       0, 0, 0, 0,   0, 0, 0, 0,
       0, 0, 0, 0,
       0, 0, 0, 0 >>

Roots == {".", "proj"}

RECURSIVE SeqsUpTo(_)
SeqsUpTo(n) ==
    IF n = 0 THEN {<<>>}
    ELSE LET shorter == SeqsUpTo(n - 1)
         IN shorter \cup {Append(q, b) : q \in {x \in shorter : Len(x) = n - 1}, b \in {0, 255}}

\* Contents an icon.ico found on disk may have.
ExistingContents == SeqsUpTo(MaxExistingLen) \cup {ico_bytes}

DirStates ==
    {[dir |-> FALSE, exists |-> FALSE, bytes |-> <<>>],
     [dir |-> TRUE, exists |-> FALSE, bytes |-> <<>>]}
    \cup {[dir |-> TRUE, exists |-> TRUE, bytes |-> c] : c \in ExistingContents}

\* line 5: env::var("CARGO_MANIFEST_DIR").unwrap_or_else(|_| ".".into())
manifest_dir == IF manifest_env = "unset" THEN "." ELSE manifest_env

InitIcon ==
    /\ InitBackend
    /\ bpc = "idle"
    /\ target_windows \in BOOLEAN
    /\ manifest_env \in {"unset", "proj"}
    /\ fs \in [Roots -> DirStates]
    /\ openFile = FALSE
    /\ builds = 0
    /\ ioErrors = 0
    /\ initialFs = fs

\* main, lines 57-60: ensure_windows_icon() is compiled in only for Windows.
BuildMain ==
    /\ bpc = "idle"
    /\ builds < MaxBuilds
    /\ bpc' = IF target_windows THEN "exists_check" ELSE "tauri_build"
    /\ UNCHANGED <<target_windows, manifest_env, fs, openFile, builds, ioErrors, initialFs>>

\* Variant: the existence test is left out.
IcoPathExists_Never == FALSE

\* line 10: ico_path.exists()
IcoPathExists == fs[manifest_dir].exists

\* lines 5-12: build the path, return at once when the file exists.
EnsureExistsCheck ==
    /\ bpc = "exists_check"
    /\ bpc' = IF IcoPathExists THEN "tauri_build" ELSE "create_dir"
    /\ UNCHANGED <<target_windows, manifest_env, fs, openFile, builds, ioErrors, initialFs>>

\* lines 14-16: let _ = fs::create_dir_all(parent);
EnsureCreateDir ==
    /\ bpc = "create_dir"
    /\ \E ok \in BOOLEAN :
        IF ok
          THEN /\ fs' = [fs EXCEPT ![manifest_dir].dir = TRUE]
               /\ UNCHANGED ioErrors
          ELSE /\ ioErrors' = ioErrors + 1
               /\ UNCHANGED fs
    /\ bpc' = "create_file"
    /\ UNCHANGED <<target_windows, manifest_env, openFile, builds, initialFs>>

\* line 52: if let Ok(mut f) = fs::File::create(&ico_path); creation needs the
\* parent directory and leaves an empty (truncated) file behind.
EnsureCreateFile ==
    /\ bpc = "create_file"
    /\ \E ok \in BOOLEAN :
        IF ok /\ fs[manifest_dir].dir
          THEN /\ fs' = [fs EXCEPT ![manifest_dir].exists = TRUE,
                                   ![manifest_dir].bytes = <<>>]
               /\ openFile' = TRUE
               /\ bpc' = "write"
               /\ UNCHANGED ioErrors
          ELSE /\ ioErrors' = ioErrors + 1
               /\ bpc' = "tauri_build"
               /\ UNCHANGED <<fs, openFile>>
    /\ UNCHANGED <<target_windows, manifest_env, builds, initialFs>>

\* Variant: a single write() whose short count goes unnoticed.
EnsureWrite_SingleWrite ==
    /\ bpc = "write"
    /\ \E n \in 0..Len(ico_bytes) :
        fs' = [fs EXCEPT ![manifest_dir].bytes = SubSeq(ico_bytes, 1, n)]
    /\ openFile' = FALSE
    /\ bpc' = "tauri_build"
    /\ UNCHANGED <<target_windows, manifest_env, builds, ioErrors, initialFs>>

\* lines 53-54: let _ = f.write_all(&ico_bytes); write_all either writes all the
\* bytes or stops with an error after a prefix of them; `f` is then dropped.
EnsureWrite ==
    /\ bpc = "write"
    /\ \E n \in 0..Len(ico_bytes) :
        /\ fs' = [fs EXCEPT ![manifest_dir].bytes = SubSeq(ico_bytes, 1, n)]
        /\ ioErrors' = IF n < Len(ico_bytes) THEN ioErrors + 1 ELSE ioErrors
    /\ openFile' = FALSE
    /\ bpc' = "tauri_build"
    /\ UNCHANGED <<target_windows, manifest_env, builds, initialFs>>

\* line 62: tauri_build::build(), the end of one run of the build script.
TauriBuild ==
    /\ bpc = "tauri_build"
    /\ bpc' = "idle"
    /\ builds' = builds + 1
    /\ UNCHANGED <<target_windows, manifest_env, fs, openFile, ioErrors, initialFs>>

NextIcon ==
    \/ (BuildMain /\ UNCHANGED backendVars)
    \/ (EnsureExistsCheck /\ UNCHANGED backendVars)
    \/ (EnsureCreateDir /\ UNCHANGED backendVars)
    \/ (EnsureCreateFile /\ UNCHANGED backendVars)
    \/ (EnsureWrite /\ UNCHANGED backendVars)
    \/ (TauriBuild /\ UNCHANGED backendVars)

SpecIcon == InitIcon /\ [][NextIcon]_vars

\* ======================================================================
\* Properties of the Icon Provisioner
\* ======================================================================

\* Little-endian fields of a byte sequence, 0-based offset as in the format.
LE16(b, off) == b[off + 1] + 256 * b[off + 2]
LE32(b, off) == LE16(b, off) + 65536 * LE16(b, off + 2)

IconFile == fs[manifest_dir]
EnsureReturned == target_windows /\ (bpc = "tauri_build" \/ builds >= 1)

\* C7: a file that exists at icons/icon.ico before provisioning, whatever its
\* content and length, is never modified: ensure_windows_icon returns at the
\* existence test, creates no directory, opens no file, and the bytes are the
\* same after any number of builds.
C7_ExistingIconUntouched ==
    /\ \A r \in Roots : initialFs[r].exists => fs[r] = initialFs[r]
    /\ initialFs[manifest_dir].exists =>
          (bpc \notin {"create_dir", "create_file", "write"} /\ ~openFile /\ ioErrors = 0)

C7_Witness ==
    /\ target_windows
    /\ initialFs[manifest_dir].exists
    /\ Len(IconFile.bytes) = MaxExistingLen
    /\ IconFile.bytes # ico_bytes
    /\ builds = MaxBuilds

\* C8: when no file exists beforehand, ensure_windows_icon leaves the path
\* either without a file or with the complete 70-byte placeholder, whatever
\* the outcomes of directory creation, file creation and the write.
C8_FailureLeavesAbsentOrComplete ==
    (~initialFs[manifest_dir].exists /\ bpc \in {"idle", "tauri_build"}) =>
        (~IconFile.exists \/ IconFile.bytes = ico_bytes)

\* C9: with no icon file beforehand and no I/O failure, provisioning leaves a
\* 70-byte file that starts 00 00 01 00 01 00, is laid out as 6 + 16 + 40 + 4 + 4
\* bytes, whose entry records data size 48 at offset 22 (22 + 48 = 70), and
\* whose bitmap header declares width 1, height 2, planes 1, 32 bpp, BI_RGB.
C9_PlaceholderLayout ==
    (EnsureReturned /\ ~initialFs[manifest_dir].exists /\ ioErrors = 0) =>
        LET b == IconFile.bytes IN
        /\ IconFile.exists
        /\ Len(b) = 70
        /\ Len(b) = 6 + 16 + 40 + 4 + 4
        /\ SubSeq(b, 1, 6) = <<0, 0, 1, 0, 1, 0>>
        /\ LE16(b, 4) = 1
        /\ b[7] = 1 /\ b[8] = 1
        /\ LE16(b, 10) = 1
        /\ LE16(b, 12) = 32
        /\ LE32(b, 14) = 48
        /\ LE32(b, 18) = 22
        /\ LE32(b, 18) = 6 + 16
        /\ LE32(b, 14) = 40 + 4 + 4
        /\ LE32(b, 18) + LE32(b, 14) = Len(b)
        /\ LE32(b, 22) = 40
        /\ LE32(b, 26) = 1
        /\ LE32(b, 30) = 2
        /\ LE16(b, 34) = 1
        /\ LE16(b, 36) = 32
        /\ LE32(b, 38) = 0
        /\ SubSeq(b, 63, 66) = <<0, 0, 0, 0>>
        /\ SubSeq(b, 67, 70) = <<0, 0, 0, 0>>

C9_Witness ==
    /\ EnsureReturned
    /\ ~initialFs[manifest_dir].exists
    /\ ~initialFs[manifest_dir].dir
    /\ ioErrors = 0
    /\ IconFile.exists
    /\ Len(IconFile.bytes) = 70
    /\ builds = MaxBuilds

====
